---- MODULE Spec2Model ----
(***************************************************************************)
(* Seam carving (src/seam_carving.cpp): computeEnergy, findSeam,           *)
(* removeSeam, seamCarving and the part of main that calls seamCarving.    *)
(*                                                                         *)
(* A cv::Mat is a record [rows, cols, at] with at[r][c] the element of row *)
(* r and column c, both counted from 0 as in the source.  A cell that was  *)
(* never written is absent from the domain of its row.  A vector<int> is a *)
(* function over 0..size-1.  Energies and costs are doubles in the source; *)
(* every value that occurs here is an integer far below 2^53, on which     *)
(* double addition and comparison are exact.                               *)
(***************************************************************************)
EXTENDS Integers, Sequences, FiniteSets, TLC

VARIABLES pc, mainImage, numSeams, image, i, energy, seam, resizedImage,
          cout, output, outcome

vars == <<pc, mainImage, numSeams, image, i, energy, seam, resizedImage,
          cout, output, outcome>>

(***************************************************************************)
(* Bounds of the model.                                                    *)
(***************************************************************************)
\* seamCarving: images of at most MaxPixels pixels (rows * cols)
MaxPixels == 9
\* seamCarving: numSeams ranges over -MaxExtra .. cols + MaxExtra
MaxExtra == 1
\* findSeam: energy fields of at most MaxCells cells (rows * cols), no side
\* longer than MaxDim
MaxCells == 9
MaxDim == 4
\* removeSeam: images of at most MaxSide x MaxSide pixels, seams whose length
\* and entries miss the valid range by at most MaxExtra
MaxSide == 3

\* findSeam: the energies a cell may hold
EnergyValues == {0, 1, 3}
\* seamCarving: the BGR pixels an image may hold (black, white)
Pixels == {<<0, 0, 0>>, <<255, 255, 255>>}

(***************************************************************************)
(* cv::Mat and std::vector                                                 *)
(***************************************************************************)
\* Mat(): the default-constructed matrix
EmptyMat == [rows |-> 0, cols |-> 0, at |-> [r \in {} |-> r]]

\* Mat::empty()
IsEmpty(m) == m.rows = 0 \/ m.cols = 0

\* vector::size()
Size(v) == Cardinality(DOMAIN v)

\* every cell of the rows x cols grid holds a value
FullyWritten(m) ==
  /\ DOMAIN m.at = 0..(m.rows - 1)
  /\ \A r \in DOMAIN m.at : DOMAIN m.at[r] = 0..(m.cols - 1)

Abs(x) == IF x < 0 THEN -x ELSE x

(***************************************************************************)
(* computeEnergy                                                           *)
(***************************************************************************)
\* cvtColor(COLOR_BGR2GRAY) on one 8-bit pixel <<b, g, r>>: the library's
\* fixed-point BT.601 projection
Gray(p) == (p[1] * 1868 + p[2] * 9617 + p[3] * 4899 + 8192) \div 16384

\* the library's default border of Sobel (reflect, edge sample not repeated)
BorderInterpolate(p, len) ==
  IF len = 1 THEN 0
  ELSE IF p < 0 THEN -p
  ELSE IF p >= len THEN 2 * len - 2 - p
  ELSE p

GrayAt(img, r, c) ==
  Gray(img.at[BorderInterpolate(r, img.rows)][BorderInterpolate(c, img.cols)])

\* Sobel(gray, grad_x, CV_64F, 1, 0, 3)
SobelX(img, r, c) ==
    (GrayAt(img, r - 1, c + 1) - GrayAt(img, r - 1, c - 1))
  + 2 * (GrayAt(img, r, c + 1) - GrayAt(img, r, c - 1))
  + (GrayAt(img, r + 1, c + 1) - GrayAt(img, r + 1, c - 1))

\* Sobel(gray, grad_y, CV_64F, 0, 1, 3)
SobelY(img, r, c) ==
    (GrayAt(img, r + 1, c - 1) - GrayAt(img, r - 1, c - 1))
  + 2 * (GrayAt(img, r + 1, c) - GrayAt(img, r - 1, c))
  + (GrayAt(img, r + 1, c + 1) - GrayAt(img, r - 1, c + 1))

computeEnergy(img) ==
  [rows |-> img.rows, cols |-> img.cols,
   at |-> [r \in 0..(img.rows - 1) |->
             [c \in 0..(img.cols - 1) |->
                Abs(SobelX(img, r, c)) + Abs(SobelY(img, r, c))]]]

(***************************************************************************)
(* findSeam                                                                *)
(***************************************************************************)
\* variant of MinPred that never looks at the right neighbour
MinPredSkipsRight(prev, j, cols) ==
  LET straight == [minCost |-> prev[j], offset |-> 0]
  IN  IF j > 0 /\ prev[j - 1] < straight.minCost
      THEN [minCost |-> prev[j - 1], offset |-> -1]
      ELSE straight

\* variant of MinPred that takes the left neighbour on a tie
MinPredLeftOnTie(prev, j, cols) ==
  LET straight == [minCost |-> prev[j], offset |-> 0]
      left     == IF j > 0 /\ prev[j - 1] <= straight.minCost
                  THEN [minCost |-> prev[j - 1], offset |-> -1]
                  ELSE straight
  IN  IF j < cols - 1 /\ prev[j + 1] < left.minCost
      THEN [minCost |-> prev[j + 1], offset |-> 1]
      ELSE left

\* the predecessor of cell (i, j) chosen from the cost row i-1 (prev):
\* straight, then left if strictly cheaper, then right if strictly cheaper
MinPred(prev, j, cols) ==
  LET straight == [minCost |-> prev[j], offset |-> 0]
      left     == IF j > 0 /\ prev[j - 1] < straight.minCost
                  THEN [minCost |-> prev[j - 1], offset |-> -1]
                  ELSE straight
  IN  IF j < cols - 1 /\ prev[j + 1] < left.minCost
      THEN [minCost |-> prev[j + 1], offset |-> 1]
      ELSE left

\* the loop over the rows 1..rows-1: cost starts as a clone of the energy
\* field, backtrack has no row 0 that is ever written
RECURSIVE FillTables(_, _, _, _, _)
FillTables(cost, backtrack, r, rows, cols) ==
  IF r < rows
  THEN LET prev == cost[r - 1]
           row  == [j \in 0..(cols - 1) |-> MinPred(prev, j, cols)]
       IN  FillTables(
             [cost EXCEPT ![r] = [j \in 0..(cols - 1) |-> cost[r][j] + row[j].minCost]],
             [k \in (DOMAIN backtrack) \cup {r} |->
                IF k = r THEN [j \in 0..(cols - 1) |-> row[j].offset]
                ELSE backtrack[k]],
             r + 1, rows, cols)
  ELSE [cost |-> cost, backtrack |-> backtrack]

Tables(en) == FillTables(en.at, [k \in {} |-> k], 1, en.rows, en.cols)

\* min_element over one row: the first position of the smallest value
MinElement(row, cols) ==
  CHOOSE j \in 0..(cols - 1) :
    /\ \A k \in 0..(cols - 1) : row[j] <= row[k]
    /\ \A k \in 0..(j - 1) : row[k] # row[j]

\* variant of BacktrackCond that stops before row 0
BacktrackCondSkipsTop(r) == r > 0

\* the condition of the backtracking loop
BacktrackCond(r) == r >= 0

RECURSIVE Reconstruct(_, _, _)
Reconstruct(backtrack, sm, r) ==
  IF BacktrackCond(r)
  THEN Reconstruct(backtrack,
                   [sm EXCEPT ![r] = sm[r + 1] + backtrack[r + 1][sm[r + 1]]],
                   r - 1)
  ELSE sm

findSeam(en) ==
  LET rows == en.rows
      cols == en.cols
      t    == Tables(en)
      sm0  == [r \in 0..(rows - 1) |-> 0]
      sm1  == [sm0 EXCEPT ![rows - 1] = MinElement(t.cost[rows - 1], cols)]
  IN  Reconstruct(t.backtrack, sm1, rows - 2)

(***************************************************************************)
(* removeSeam                                                              *)
(***************************************************************************)
\* variant of OutputCols that keeps the width
OutputColsSameWidth(cols) == cols

\* the width of the output: Mat output(rows, cols - 1, CV_8UC3)
OutputCols(cols) == cols - 1

\* the writes <<destination column, source column>> of one row whose seam
\* column is s: the loop left of the seam, then the loop right of it
FirstLoop(s) == {<<j, j>> : j \in 0..(s - 1)}

\* variant of SecondLoop that copies without shifting left
SecondLoopNoShift(s, cols) == {<<j, j>> : j \in (s + 1)..(cols - 1)}

SecondLoop(s, cols) == {<<j - 1, j>> : j \in (s + 1)..(cols - 1)}

\* a write that stays inside the output row and reads inside the image row
InRange(w, cols) ==
  /\ w[1] \in 0..(OutputCols(cols) - 1)
  /\ w[2] \in 0..(cols - 1)

\* the row of the output after both loops, a later write replacing an
\* earlier one; a column no loop wrote holds nothing
OutputRow(imageRow, s, cols) ==
  LET first  == {w \in FirstLoop(s) : InRange(w, cols)}
      second == {w \in SecondLoop(s, cols) : InRange(w, cols)}
      written == {w[1] : w \in first \cup second}
  IN  [c \in written |->
         IF \E w \in second : w[1] = c
         THEN imageRow[(CHOOSE w \in second : w[1] = c)[2]]
         ELSE imageRow[(CHOOSE w \in first : w[1] = c)[2]]]

\* removeSeam when every access is in range
removeSeam(img, sm) ==
  [rows |-> img.rows, cols |-> OutputCols(img.cols),
   at |-> [r \in 0..(img.rows - 1) |-> OutputRow(img.at[r], sm[r], img.cols)]]

\* the call reads or writes outside a vector or a matrix row: seam[i] past
\* the end of the seam, or a loop index outside the output or the image
OutOfRange(img, sm) ==
  IF Size(sm) < img.rows
  THEN TRUE
  ELSE \E r \in 0..(img.rows - 1) :
         \E w \in FirstLoop(sm[r]) \cup SecondLoop(sm[r], img.cols) :
           ~InRange(w, img.cols)

\* what a call with an out-of-range access may leave behind when it
\* returns: a matrix of the output's size whose contents are unspecified
Unspecified(img) ==
  [rows |-> img.rows, cols |-> OutputCols(img.cols), at |-> [r \in {} |-> r]]

(***************************************************************************)
(* seamCarving and its call from main                                      *)
(***************************************************************************)
\* if (numSeams >= image.cols)
TooMany(n, cols) == n >= cols

\* variant of LoopCond that runs one iteration more
LoopCondInclusive(k, n) == k <= n

\* for (...; i < numSeams; ...)
LoopCond(k, n) == k < n

NoSeam == [r \in {} |-> r]

\* the shapes rows x cols, both at least 1, of at most n cells
Shapes(n) == {hw \in (1..n) \X (1..n) : hw[1] * hw[2] <= n}

\* what imread may deliver: a non-empty image
Images ==
  UNION {[rows : {hw[1]}, cols : {hw[2]},
          at : [0..(hw[1] - 1) -> [0..(hw[2] - 1) -> Pixels]]] :
           hw \in Shapes(MaxPixels)}

Init ==
  /\ pc = "main_call"
  /\ mainImage \in Images
  /\ numSeams \in (-MaxExtra)..(mainImage.cols + MaxExtra)
  /\ image = EmptyMat
  /\ i = 0
  /\ energy = EmptyMat
  /\ seam = NoSeam
  /\ resizedImage = EmptyMat
  /\ cout = <<>>
  /\ output = EmptyMat
  /\ outcome = "none"

\* main: Mat resizedImage = seamCarving(image, numSeams), the image passed
\* by value
MainCall ==
  /\ pc = "main_call"
  /\ image' = mainImage
  /\ pc' = "sc_check"
  /\ UNCHANGED <<mainImage, numSeams, i, energy, seam, resizedImage, cout,
                 output, outcome>>

\* seamCarving: the check of numSeams succeeds: print and return a clone
RefuseTooMany ==
  /\ pc = "sc_check"
  /\ TooMany(numSeams, image.cols)
  /\ cout' = Append(cout, <<"Error: numSeams exceeds image width",
                            numSeams, image.cols>>)
  /\ resizedImage' = image
  /\ pc' = "main_check"
  /\ UNCHANGED <<mainImage, numSeams, image, i, energy, seam, output, outcome>>

\* seamCarving: the check of numSeams fails: enter the loop with i = 0
EnterLoop ==
  /\ pc = "sc_check"
  /\ ~TooMany(numSeams, image.cols)
  /\ i' = 0
  /\ pc' = "sc_loop"
  /\ UNCHANGED <<mainImage, numSeams, image, energy, seam, resizedImage, cout,
                 output, outcome>>

\* seamCarving: the loop condition holds
LoopBody ==
  /\ pc = "sc_loop"
  /\ LoopCond(i, numSeams)
  /\ pc' = "sc_energy"
  /\ UNCHANGED <<mainImage, numSeams, image, i, energy, seam, resizedImage,
                 cout, output, outcome>>

\* seamCarving: the loop condition fails: return image
ReturnImage ==
  /\ pc = "sc_loop"
  /\ ~LoopCond(i, numSeams)
  /\ resizedImage' = image
  /\ pc' = "main_check"
  /\ UNCHANGED <<mainImage, numSeams, image, i, energy, seam, cout, output,
                 outcome>>

\* variant of EnergyStep that keeps the first iteration's energy field
EnergyStepOnce ==
  /\ pc = "sc_energy"
  /\ energy' = IF i = 0 THEN computeEnergy(image) ELSE energy
  /\ pc' = "sc_seam"
  /\ UNCHANGED <<mainImage, numSeams, image, i, seam, resizedImage, cout,
                 output, outcome>>

\* Mat energy = computeEnergy(image)
EnergyStep ==
  /\ pc = "sc_energy"
  /\ energy' = computeEnergy(image)
  /\ pc' = "sc_seam"
  /\ UNCHANGED <<mainImage, numSeams, image, i, seam, resizedImage, cout,
                 output, outcome>>

\* vector<int> seam = findSeam(energy)
SeamStep ==
  /\ pc = "sc_seam"
  /\ seam' = findSeam(energy)
  /\ pc' = "sc_remove"
  /\ UNCHANGED <<mainImage, numSeams, image, i, energy, resizedImage, cout,
                 output, outcome>>

\* image = removeSeam(image, seam), then i++
RemoveStep ==
  /\ pc = "sc_remove"
  /\ image' = removeSeam(image, seam)
  /\ i' = i + 1
  /\ pc' = "sc_loop"
  /\ UNCHANGED <<mainImage, numSeams, energy, seam, resizedImage, cout,
                 output, outcome>>

\* main: if (resizedImage.empty()) report and return -1, else print the
\* size and go on to save the image
MainCheck ==
  /\ pc = "main_check"
  /\ IF IsEmpty(resizedImage)
     THEN /\ cout' = Append(cout, <<"Error: resizedImage is empty!">>)
          /\ outcome' = "exit -1"
          /\ pc' = "exit"
     ELSE /\ cout' = Append(cout, <<"Resized image size",
                                    resizedImage.cols, resizedImage.rows>>)
          /\ outcome' = "saving"
          /\ pc' = "main_save"
  /\ UNCHANGED <<mainImage, numSeams, image, i, energy, seam, resizedImage,
                 output>>

Next ==
  \/ MainCall
  \/ RefuseTooMany
  \/ EnterLoop
  \/ LoopBody
  \/ ReturnImage
  \/ EnergyStep
  \/ SeamStep
  \/ RemoveStep
  \/ MainCheck

Spec == Init /\ [][Next]_vars

(***************************************************************************)
(* findSeam on its own: every energy field of at most MaxCells cells       *)
(***************************************************************************)
EnergyFields ==
  UNION {[rows : {hw[1]}, cols : {hw[2]},
          at : [0..(hw[1] - 1) -> [0..(hw[2] - 1) -> EnergyValues]]] :
           hw \in {x \in Shapes(MaxCells) : x[1] <= MaxDim /\ x[2] <= MaxDim}}

InitFindSeam ==
  /\ pc = "fs_call"
  /\ energy \in EnergyFields
  /\ seam = NoSeam
  /\ mainImage = EmptyMat
  /\ numSeams = 0
  /\ image = EmptyMat
  /\ i = 0
  /\ resizedImage = EmptyMat
  /\ cout = <<>>
  /\ output = EmptyMat
  /\ outcome = "none"

FindSeamCall ==
  /\ pc = "fs_call"
  /\ seam' = findSeam(energy)
  /\ pc' = "fs_done"
  /\ UNCHANGED <<mainImage, numSeams, image, i, energy, resizedImage, cout,
                 output, outcome>>

SpecFindSeam == InitFindSeam /\ [][FindSeamCall]_vars

(***************************************************************************)
(* removeSeam on its own: images whose pixels are pairwise distinct, seams *)
(* of every length and with every entry near the valid range               *)
(***************************************************************************)
TaggedImage(h, w) ==
  [rows |-> h, cols |-> w,
   at |-> [r \in 0..(h - 1) |-> [c \in 0..(w - 1) |-> <<r, c, 255>>]]]

\* seams of the right length with entries in and near the valid range, and
\* seams of a wrong length with valid entries
Seams(h, w) ==
  [0..(h - 1) -> (-MaxExtra)..(w - 1 + MaxExtra)]
    \cup UNION {[0..(n - 1) -> 0..(w - 1)] :
                 n \in {k \in (h - MaxExtra)..(h + MaxExtra) : k >= 0}}

InitRemoveSeam ==
  /\ pc = "rs_call"
  /\ \E h \in 1..MaxSide, w \in 1..MaxSide :
       /\ image = TaggedImage(h, w)
       /\ seam \in Seams(h, w)
  /\ output = EmptyMat
  /\ outcome = "none"
  /\ mainImage = EmptyMat
  /\ numSeams = 0
  /\ i = 0
  /\ energy = EmptyMat
  /\ resizedImage = EmptyMat
  /\ cout = <<>>

\* every access of the call is in range: the output is returned
RemoveSeamCall ==
  /\ pc = "rs_call"
  /\ ~OutOfRange(image, seam)
  /\ output' = removeSeam(image, seam)
  /\ outcome' = "returned"
  /\ pc' = "rs_done"
  /\ UNCHANGED <<mainImage, numSeams, image, i, energy, seam, resizedImage,
                 cout>>

\* some access of the call is out of range, which is undefined: the call
\* crashes, or returns what its in-range writes built, or returns a matrix
\* of unspecified contents
RemoveSeamOutOfRange ==
  /\ pc = "rs_call"
  /\ OutOfRange(image, seam)
  /\ \/ /\ outcome' = "crashed"
        /\ output' = EmptyMat
     \/ /\ outcome' = "returned"
        /\ output' = Unspecified(image)
     \/ /\ Size(seam) >= image.rows
        /\ outcome' = "returned"
        /\ output' = removeSeam(image, seam)
  /\ pc' = "rs_done"
  /\ UNCHANGED <<mainImage, numSeams, image, i, energy, seam, resizedImage,
                 cout>>

NextRemoveSeam ==
  \/ RemoveSeamCall
  \/ RemoveSeamOutOfRange

SpecRemoveSeam == InitRemoveSeam /\ [][NextRemoveSeam]_vars

(***************************************************************************)
(* Properties of seamCarving (Spec)                                        *)
(***************************************************************************)
ValidN == 0 <= numSeams /\ numSeams < mainImage.cols

InSeamCarving == pc \in {"sc_check", "sc_loop", "sc_energy", "sc_seam", "sc_remove"}

Returned == pc \in {"main_check", "main_save", "exit"}

InIteration == pc \in {"sc_energy", "sc_seam", "sc_remove"}

ErrorPrinted ==
  \E k \in 1..Len(cout) :
    cout[k] = <<"Error: numSeams exceeds image width", numSeams, mainImage.cols>>

\* C1: with 0 <= N < W, after i completed iterations the current image is a
\* full grid of H rows and W - i columns, 0 <= i <= N, never narrower than
\* one column; the returned image is a full grid of H rows and W - N columns.
C1_Dimensions ==
  ValidN =>
    /\ InSeamCarving =>
         /\ 0 <= i /\ i <= numSeams
         /\ image.rows = mainImage.rows
         /\ image.cols = mainImage.cols - i
         /\ image.cols >= 1
         /\ FullyWritten(image)
    /\ Returned =>
         /\ resizedImage.rows = mainImage.rows
         /\ resizedImage.cols = mainImage.cols - numSeams
         /\ resizedImage.cols >= 1
         /\ FullyWritten(resizedImage)

\* a square image carved down to a single column has been returned
C1_Witness ==
  /\ pc = "main_check"
  /\ mainImage.rows = 3 /\ mainImage.cols = 3
  /\ numSeams = mainImage.cols - 1
  /\ i = numSeams
  /\ resizedImage.rows = 3 /\ resizedImage.cols = 1

\* C2: with N >= W, seamCarving fails: the caller gets no image (the empty
\* matrix that main tests for), the error is reported, and no iteration ran.
C2_RefusesTooMany ==
  (Returned /\ numSeams >= mainImage.cols) =>
    /\ IsEmpty(resizedImage)
    /\ ErrorPrinted
    /\ i = 0 /\ energy = EmptyMat /\ seam = NoSeam

\* C3: with N < 0, seamCarving fails as for N >= W: the caller gets no image
\* and the error carrying N and W is reported.
C3_RefusesNegative ==
  (Returned /\ numSeams < 0) =>
    /\ IsEmpty(resizedImage)
    /\ ErrorPrinted

\* C7: with N = 0 no step of an iteration ever runs (no energy, no seam, no
\* removal) and the image returned is the input, pixel for pixel.
C7_ZeroIsIdentity ==
  numSeams = 0 =>
    /\ ~InIteration
    /\ i = 0 /\ energy = EmptyMat /\ seam = NoSeam
    /\ Returned => resizedImage = mainImage

\* seamCarving(image, 0) has returned a non-uniform image of several columns
C7_Witness ==
  /\ pc = "main_check"
  /\ numSeams = 0
  /\ mainImage.rows >= 2 /\ mainImage.cols >= 2
  /\ \E r \in 0..(mainImage.rows - 1) : mainImage.at[r][0] # mainImage.at[r][1]
  /\ resizedImage = mainImage

\* C9: with valid N every iteration runs energy, then seam, then remove, on
\* the current image: the first iteration starts from the original image,
\* the energy field is that of the current image, the seam is findSeam of
\* that field, the removal's result becomes the current image of the next
\* iteration, and the loop returns after exactly N iterations.
C9_IterationOrder ==
  [][ValidN =>
       /\ (pc = "sc_loop" /\ i < numSeams) =>
            /\ pc' = "sc_energy"
            /\ image' = image
       /\ (pc = "sc_loop" /\ i = 0) => image = mainImage
       /\ pc = "sc_energy" =>
            /\ energy' = computeEnergy(image)
            /\ image' = image /\ i' = i
            /\ pc' = "sc_seam"
       /\ pc = "sc_seam" =>
            /\ energy = computeEnergy(image)
            /\ seam' = findSeam(computeEnergy(image))
            /\ image' = image /\ energy' = energy /\ i' = i
            /\ pc' = "sc_remove"
       /\ pc = "sc_remove" =>
            /\ energy = computeEnergy(image)
            /\ seam = findSeam(computeEnergy(image))
            /\ image' = removeSeam(image, seam)
            /\ i' = i + 1
            /\ pc' = "sc_loop"
       /\ (pc = "sc_loop" /\ ~(i < numSeams)) =>
            /\ i = numSeams
            /\ resizedImage' = image
            /\ pc' = "main_check"]_vars

\* the second iteration has computed its energy field, and that field is not
\* the first iteration's field with the first seam cut out of it
C9_Witness ==
  /\ pc = "sc_seam"
  /\ i = 1
  /\ ValidN
  /\ energy = computeEnergy(image)
  /\ image = removeSeam(mainImage, findSeam(computeEnergy(mainImage)))
  /\ energy # removeSeam(computeEnergy(mainImage),
                         findSeam(computeEnergy(mainImage)))

(***************************************************************************)
(* Properties of findSeam (SpecFindSeam)                                   *)
(***************************************************************************)
\* the row r of a literal matrix, counted from 0
FromTuple(t) == [k \in 0..(Len(t) - 1) |-> t[k + 1]]

RECURSIVE SumAlong(_, _, _)
SumAlong(en, path, r) ==
  IF r < 0 THEN 0 ELSE SumAlong(en, path, r - 1) + en.at[r][path[r]]

\* the 8-connected vertical paths of a rows x cols grid
VerticalPaths(rows, cols) ==
  {p \in [0..(rows - 1) -> 0..(cols - 1)] :
     \A r \in 0..(rows - 2) : Abs(p[r + 1] - p[r]) <= 1}

SetMin(S) == CHOOSE x \in S : \A y \in S : x <= y

BruteForceMin(en) ==
  SetMin({SumAlong(en, p, en.rows - 1) : p \in VerticalPaths(en.rows, en.cols)})

LastRowMin(en) ==
  LET last == Tables(en).cost[en.rows - 1]
  IN  SetMin({last[j] : j \in 0..(en.cols - 1)})

\* C4: the energies along the returned seam sum to the minimum of the last
\* row of the cost table, which is the minimum of the sums along all
\* 8-connected vertical paths.
C4_Optimal ==
  pc = "fs_done" =>
    /\ SumAlong(energy, seam, energy.rows - 1) = LastRowMin(energy)
    /\ LastRowMin(energy) = BruteForceMin(energy)

\* a seam that steps left and steps right was found on a field where every
\* path costs something and a straight path costs more
C4_Witness ==
  /\ pc = "fs_done"
  /\ energy.rows >= 3 /\ energy.cols >= 3
  /\ \E r \in 0..(energy.rows - 2) : seam[r + 1] = seam[r] + 1
  /\ \E r \in 0..(energy.rows - 2) : seam[r + 1] = seam[r] - 1
  /\ BruteForceMin(energy) > 0
  /\ \A c \in 0..(energy.cols - 1) :
       SumAlong(energy, [r \in 0..(energy.rows - 1) |-> c], energy.rows - 1)
         > BruteForceMin(energy)

\* C5: the seam has one entry per row, every entry is a column of the field
\* and consecutive entries differ by at most 1.
C5_SeamValid ==
  pc = "fs_done" =>
    /\ DOMAIN seam = 0..(energy.rows - 1)
    /\ Size(seam) = energy.rows
    /\ \A r \in DOMAIN seam : 0 <= seam[r] /\ seam[r] < energy.cols
    /\ \A r \in 0..(energy.rows - 2) : Abs(seam[r + 1] - seam[r]) <= 1

\* a seam running from the left border to the right border was found
C5_Witness ==
  /\ pc = "fs_done"
  /\ energy.cols >= 3
  /\ \E r \in DOMAIN seam : seam[r] = 0
  /\ \E r \in DOMAIN seam : seam[r] = energy.cols - 1

\* the reference dynamic programme: the cost recurrence, the predecessor
\* offset by preference 0, -1, +1, the smallest start column
RECURSIVE RefCostRow(_, _)
RefCostRow(en, r) ==
  IF r = 0 THEN en.at[0]
  ELSE LET prev == RefCostRow(en, r - 1)
       IN  [c \in 0..(en.cols - 1) |->
              en.at[r][c]
              + SetMin({prev[c + d] :
                          d \in {d \in {-1, 0, 1} : c + d \in 0..(en.cols - 1)}})]

RefCost(en) == [r \in 0..(en.rows - 1) |-> RefCostRow(en, r)]

RefBack(cost, r, c, cols) ==
  LET valid == {d \in {-1, 0, 1} : c + d \in 0..(cols - 1)}
      best  == SetMin({cost[r - 1][c + d] : d \in valid})
      ties  == {d \in valid : cost[r - 1][c + d] = best}
  IN  IF 0 \in ties THEN 0 ELSE IF -1 \in ties THEN -1 ELSE 1

RefStart(cost, rows, cols) ==
  LET best == SetMin({cost[rows - 1][c] : c \in 0..(cols - 1)})
  IN  SetMin({c \in 0..(cols - 1) : cost[rows - 1][c] = best})

RECURSIVE RefSeamFrom(_, _, _, _)
RefSeamFrom(cost, cols, sm, r) ==
  IF r < 0 THEN sm
  ELSE RefSeamFrom(cost, cols,
                   [k \in (DOMAIN sm) \cup {r} |->
                      IF k = r
                      THEN sm[r + 1] + RefBack(cost, r + 1, sm[r + 1], cols)
                      ELSE sm[k]],
                   r - 1)

RefSeam(en) ==
  LET cost == RefCost(en)
      last == en.rows - 1
  IN  RefSeamFrom(cost, en.cols,
                  [k \in {last} |-> RefStart(cost, en.rows, en.cols)],
                  last - 1)

ExampleField ==
  [rows |-> 3, cols |-> 3,
   at |-> FromTuple(<<FromTuple(<<1, 3, 1>>), FromTuple(<<3, 1, 3>>),
                      FromTuple(<<1, 3, 1>>)>>)]

ExampleCost ==
  FromTuple(<<FromTuple(<<1, 3, 1>>), FromTuple(<<4, 2, 4>>),
              FromTuple(<<3, 5, 3>>)>>)

AllZero(en) ==
  \A r \in 0..(en.rows - 1) : \A c \in 0..(en.cols - 1) : en.at[r][c] = 0

\* C8: the tables and the seam are those of the reference dynamic programme
\* with its tie-breaks (offset 0 before -1 before +1, smallest start
\* column); the 3x3 example has the cost table and the seam the spec gives;
\* an all-zero field gives column 0 in every row.
C8_CanonicalTieBreaks ==
  pc = "fs_done" =>
    LET t   == Tables(energy)
        ref == RefCost(energy)
    IN  /\ t.cost = ref
        /\ DOMAIN t.backtrack = 1..(energy.rows - 1)
        /\ \A r \in 1..(energy.rows - 1) : \A c \in 0..(energy.cols - 1) :
             t.backtrack[r][c] = RefBack(ref, r, c, energy.cols)
        /\ seam = RefSeam(energy)
        /\ energy = ExampleField =>
             /\ t.cost = ExampleCost
             /\ seam = FromTuple(<<0, 1, 0>>)
        /\ AllZero(energy) => \A r \in 0..(energy.rows - 1) : seam[r] = 0

\* findSeam has returned [0, 1, 0] on the 3x3 example
C8_Witness ==
  /\ pc = "fs_done"
  /\ energy = ExampleField
  /\ seam = FromTuple(<<0, 1, 0>>)

(***************************************************************************)
(* Properties of removeSeam (SpecRemoveSeam)                               *)
(***************************************************************************)
ValidSeam(img, sm) ==
  /\ DOMAIN sm = 0..(img.rows - 1)
  /\ \A r \in DOMAIN sm : sm[r] \in 0..(img.cols - 1)

\* C6: for W >= 2 and a valid seam the call returns a full grid of H rows
\* and W - 1 columns whose cell (r, c) is the input's (r, c) left of the
\* seam and the input's (r, c + 1) from the seam on; the input is as it was.
C6_PixelConservation ==
  (pc = "rs_done" /\ image.cols >= 2 /\ ValidSeam(image, seam)) =>
    /\ outcome = "returned"
    /\ output.rows = image.rows
    /\ output.cols = image.cols - 1
    /\ FullyWritten(output)
    /\ \A r \in 0..(image.rows - 1) : \A c \in 0..(image.cols - 2) :
         output.at[r][c] = IF c < seam[r] THEN image.at[r][c]
                           ELSE image.at[r][c + 1]
    /\ image = TaggedImage(image.rows, image.cols)

\* a seam through the first, a middle and the last column has been removed
C6_Witness ==
  /\ pc = "rs_done"
  /\ outcome = "returned"
  /\ image.rows = 3 /\ image.cols = 3
  /\ seam = FromTuple(<<0, 1, 2>>)
  /\ output.at[0][0] = image.at[0][1]
  /\ output.at[2][1] = image.at[2][1]

InvalidSeam(img, sm) ==
  \/ Size(sm) # img.rows
  \/ \E r \in DOMAIN sm : sm[r] \notin 0..(img.cols - 1)

\* C10: a seam of the wrong length or with an entry outside [0, W-1] is
\* rejected: the call ends with InvalidSeam and produces no output image.
C10_RejectsInvalidSeam ==
  (pc = "rs_done" /\ InvalidSeam(image, seam)) =>
    /\ outcome = "InvalidSeam"
    /\ output = EmptyMat

====
